---- MODULE Spec2Model ----
(***************************************************************************)
(* Income/Expense tracker: the expense buffer written by the cloud bot     *)
(* (cloud_bot/cloud_bot.py) and the synchronizer that migrates it into the *)
(* SQLite store (pc_bot/sync.py).                                          *)
(*                                                                         *)
(* Amounts are counted in hundredths (12.50 is 1250).  Instants are ticks  *)
(* of a logical clock; a calendar date is the tick divided by TicksPerDay. *)
(***************************************************************************)
EXTENDS Integers, Sequences, FiniteSets, TLC

VARIABLES
    bufFile,        \* cloud_bot/expense_buffer.json: [kind, data]
    dbExists,       \* db/expenses.db exists on disk
    accounts,       \* committed rows of table accounts
    transactions,   \* committed rows of table transactions, in rowid order
    now,            \* datetime.now(), in ticks
    pc,             \* position of the running sync_buffer pass
    buffer_data,    \* sync_buffer: the batch read from the buffer file
    results,        \* sync_buffer: insert_transaction results so far
    staged,         \* rows inserted on conn and not yet committed
    count_synced,   \* sync_buffer: local count_synced
    conn,           \* sync_buffer: state of the connection it opened
    outcome,        \* how the pass ended
    ret,            \* value returned by sync_buffer
    events,         \* operations performed by the running pass, in order
    pre,            \* buffer file and tables when the pass started
    retry,          \* batch of the last pass if it rolled back on unknown
                    \* account names only and the buffer is as it left it
    wpc,            \* add_expense_to_buffer calls in progress: position
    wbuf,           \* add_expense_to_buffer calls in progress: local buffer
    flows,          \* /expense messages of the bot and their views
    raced,          \* timestamps of the entries whose call overlapped
                    \* another call or a pass between its read and its clear
    reply,          \* what the bot answered to the last interaction or message
    tables,         \* committed rows of tables categories, bills,
                    \* subscriptions and transfers, and the exported
                    \* cloud_bot/accounts.json
    call,           \* the last call of a desk function and what it returned
    review          \* statement_processor: transactions_to_review

vars == <<bufFile, dbExists, accounts, transactions, now, pc, buffer_data,
          results, staged, count_synced, conn, outcome, ret, events, pre,
          retry, wpc, wbuf, flows, raced, reply, tables, call, review>>

\* state of the bot process
botVars == <<wpc, wbuf, flows, raced, reply>>

\* state of the desk tools: db_manager, config_manager, statement_processor
deskVars == <<tables, call, review>>

passVars == <<pc, buffer_data, results, staged, count_synced, conn, outcome,
              ret, events, pre>>

-----------------------------------------------------------------------------
(* Bounds of the model *)

MaxBuf == 2         \* records in the buffer file
MaxClock == 2       \* calls of add_expense_to_buffer
MaxTx == 3          \* rows of table transactions
TicksPerDay == 2    \* clock ticks in one calendar day

-----------------------------------------------------------------------------
(* Input domains *)

Users == {"alice"}
Amounts == {1250}
Categories == {"Food"}
Descriptions == {"Lunch"}
AccountNames == {"Cash Wallet", "cash wallet", "Credit Card",
                 "Unknown Wallet"}
DbAccounts == {<<"Cash Wallet", "wallet">>, <<"Credit Card", "credit_card">>}

\* concurrent callers of add_expense_to_buffer
Writers == {"w1", "w2"}
\* messages carrying an /expense view
FlowIds == {"m1"}
\* a message without an /expense view
NoFlow == [stage |-> "none", user_id |-> "", amount |-> 0, category |-> "",
           account |-> "", modal |-> FALSE, modal_user |-> ""]
\* users who can press the buttons of a message
Members == Users \cup {"bob"}
\* amounts a slash command can carry, in hundredths
SlashAmounts == {1250, 0, -500}
\* names on the buttons of AccountView
ButtonAccounts == {"Cash Wallet", "Credit Card"}
\* authors and channels of the messages the bot sees
Authors == {"bot", "hook"}
Channels == {"webhook", "general"}
\* first fields of the messages posted in the webhook channel
AmountStrings == {"12.50", "0", "-5", "nan", "abc"}
\* content of a message: a prefix and the fields that '|' separates
Contents ==
    {[prefix |-> "", parts |-> <<"hello">>]}
    \cup {[prefix |-> x, parts |-> <<a, "Food", "Cash Wallet">>] :
              x \in {"", "!"}, a \in AmountStrings}
    \cup {[prefix |-> "", parts |-> <<a, "Food">>] : a \in AmountStrings}
    \cup {[prefix |-> "", parts |-> <<a, "Food", "Cash Wallet", "Lunch">>] :
              a \in AmountStrings}
Messages == [author : Authors, channel : Channels, content : Contents]
NoReply == [text |-> "", commands |-> 0]
\* tables categories, bills, subscriptions and transfers without rows, and
\* no exported accounts.json
NoRows == [categories |-> {}, bills |-> {}, subscriptions |-> {},
           transfers |-> <<>>,
           accounts_json |-> [kind |-> "absent", data |-> {}]]
\* no desk function was called yet
NoCall == [op |-> "none", args |-> <<>>, ret |-> "none"]
\* arguments of the calls of db_manager
AccountIdArgs == {1, 2, 9}
TransferAmounts == {1250, 0, -500}
TxnTypeArgs == {"expense", "Income", "gift"}
\* errors sqlite raises for reasons of its own (locked file, full disk)
DeskFaults == {"none", "sqlite3.Error"}
\* the ids passed to the update functions: a row that exists, one that does not
RowIdArgs == {1, 9}
\* no keyword argument
NoUpdates == [field \in {} |-> 0]
\* the keyword arguments passed to the update functions
AccountUpdates ==
    {NoUpdates, [virtual_balance |-> 500], [balance |-> 500, id |-> 7],
     [type |-> "bank", emoji |-> "x"]}
CategoryUpdates ==
    {NoUpdates, [colour |-> "red"], [type |-> "gift", id |-> 7],
     [type |-> "Income", name |-> "Dining"]}
TransactionUpdates ==
    {NoUpdates, [created_at |-> 1], [type |-> "gift"],
     [type |-> "Income", id |-> 7], [is_recurring |-> TRUE, amount |-> 4000]}
BillUpdates ==
    {NoUpdates, [paid |-> 1], [amount |-> 9000, id |-> 7]}
SubscriptionUpdates ==
    {NoUpdates, [amount |-> 999], [active |-> FALSE, id |-> 7]}
\* amounts of the rows of a pasted statement, in hundredths
StatementAmounts == {-1250, 4000}
\* the account and category names load_db_config cached for the dropdowns
CachedAccounts == {"Cash Wallet", "Credit Card"}
CachedCategories == {"Food"}

\* Keys insert_transaction reads from a buffer record
RequiredFields == {"account", "date", "amount", "category", "description",
                   "timestamp"}
\* Keys a hand-edited record may lack
DroppableFields == {"account", "description"}

-----------------------------------------------------------------------------
(* Buffer file *)

AbsentFile == [kind |-> "absent", data |-> <<>>]
InvalidFile == [kind |-> "invalid", data |-> <<>>]
ValidFile(seq) == [kind |-> "valid", data |-> seq]

\* variant: the stored list is never read back
load_bufferAlwaysEmpty == <<>>

\* cloud_bot.load_buffer: [] when the file is absent or is not JSON
load_buffer == IF bufFile.kind = "valid" THEN bufFile.data ELSE <<>>

\* variant: only the last entry is written
save_bufferEntryOnly(buffer) ==
    [kind |-> "valid",
     data |-> IF buffer = <<>> THEN <<>> ELSE <<buffer[Len(buffer)]>>]

\* cloud_bot.save_buffer: rewrite the whole file
save_buffer(buffer) == ValidFile(buffer)

\* strftime("%Y-%m-%d") of an instant
DateOf(t) == t \div TicksPerDay

\* cloud_bot.add_expense_to_buffer: the entry it builds
NewEntry(user, amount, category, account, description) ==
    [user |-> user, amount |-> amount, category |-> category,
     account |-> account, description |-> description,
     date |-> DateOf(now), timestamp |-> now]

\* variant: buffer.insert(0, entry) in place of buffer.append(entry)
add_expense_to_bufferPrepend(user, amount, category, account, description) ==
    /\ pc = "idle"
    /\ now < MaxClock
    /\ Len(load_buffer) < MaxBuf
    /\ bufFile' = save_buffer(
           <<NewEntry(user, amount, category, account, description)>>
               \o load_buffer)
    /\ now' = now + 1
    /\ retry' = <<>>
    /\ UNCHANGED <<dbExists, accounts, transactions, passVars, wpc, wbuf,
                   raced, deskVars>>

\* variant: a file that does not parse is left alone and the entry is dropped
add_expense_to_bufferKeeps(user, amount, category, account, description) ==
    /\ pc = "idle"
    /\ now < MaxClock
    /\ Len(load_buffer) < MaxBuf
    /\ bufFile' = IF bufFile.kind = "invalid"
                  THEN bufFile
                  ELSE save_buffer(Append(load_buffer,
                           NewEntry(user, amount, category, account,
                                    description)))
    /\ now' = now + 1
    /\ retry' = <<>>
    /\ UNCHANGED <<dbExists, accounts, transactions, passVars, wpc, wbuf,
                   raced, deskVars>>

\* cloud_bot.add_expense_to_buffer
add_expense_to_buffer(user, amount, category, account, description) ==
    /\ pc = "idle"
    /\ now < MaxClock
    /\ Len(load_buffer) < MaxBuf
    /\ bufFile' = save_buffer(Append(load_buffer,
                      NewEntry(user, amount, category, account, description)))
    /\ now' = now + 1
    /\ retry' = <<>>
    /\ UNCHANGED <<dbExists, accounts, transactions, passVars, wpc, wbuf,
                   raced, deskVars>>

AddExpense ==
    /\ \E user \in Users, amount \in Amounts, category \in Categories,
          account \in AccountNames, description \in Descriptions :
           add_expense_to_buffer(user, amount, category, account, description)
    /\ UNCHANGED <<flows, reply>>

\* the entries of calls that have loaded and not yet saved
PendingStamps(w) ==
    IF wpc[w] = "loaded" THEN {wbuf[w][Len(wbuf[w])].timestamp} ELSE {}

\* add_expense_to_buffer up to buffer.append(entry): the file is read and the
\* entry is appended to the local list
AddLoad(w) ==
    /\ wpc[w] = "idle"
    /\ now < MaxClock
    /\ Len(load_buffer) < MaxBuf
    /\ \E user \in Users, amount \in Amounts, category \in Categories,
          account \in AccountNames, description \in Descriptions :
           wbuf' = [wbuf EXCEPT ![w] = Append(load_buffer,
                       NewEntry(user, amount, category, account, description))]
    /\ wpc' = [wpc EXCEPT ![w] = "loaded"]
    /\ now' = now + 1
    /\ raced' = IF \E v \in Writers \ {w} : wpc[v] = "loaded"
                THEN raced \cup {now}
                           \cup UNION {PendingStamps(v) : v \in Writers \ {w}}
                ELSE raced
    /\ UNCHANGED <<bufFile, dbExists, accounts, transactions, passVars, retry,
                   flows, reply, deskVars>>

\* add_expense_to_buffer: save_buffer(buffer)
AddSave(w) ==
    /\ wpc[w] = "loaded"
    /\ bufFile' = save_buffer(wbuf[w])
    /\ wpc' = [wpc EXCEPT ![w] = "idle"]
    /\ wbuf' = [wbuf EXCEPT ![w] = <<>>]
    /\ raced' = IF pc \in {"scan", "commit", "clear"}
                THEN raced \cup PendingStamps(w)
                ELSE raced
    /\ UNCHANGED <<dbExists, accounts, transactions, now, passVars, retry,
                   flows, reply, deskVars>>

-----------------------------------------------------------------------------
(* The handlers of the bot. One event loop runs them, one at a time *)

\* the float nan, and the order of floats: nan is ordered with nothing
NaN == -999999
FloatLE(x, y) == x # NaN /\ y # NaN /\ x <= y

\* float(amount_str): the value in hundredths, or ValueError
float(amount_str) ==
    CASE amount_str = "12.50" -> [ok |-> TRUE, value |-> 1250]
      [] amount_str = "0"     -> [ok |-> TRUE, value |-> 0]
      [] amount_str = "-5"    -> [ok |-> TRUE, value |-> -500]
      [] amount_str = "nan"   -> [ok |-> TRUE, value |-> NaN]
      [] OTHER                -> [ok |-> FALSE, value |-> 0]

\* a handler that returns without calling add_expense_to_buffer
NoAppend ==
    UNCHANGED <<bufFile, dbExists, accounts, transactions, now, passVars,
                retry, wpc, wbuf, raced, deskVars>>

Answer(text) == [text |-> text, commands |-> 0]

\* /expense
slash_expense(f, user, amount) ==
    /\ flows[f].stage = "none"
    /\ IF FloatLE(amount, 0)
       THEN /\ reply' = Answer("Amount must be positive.")
            /\ UNCHANGED flows
       ELSE /\ flows' = [flows EXCEPT ![f] =
                            [NoFlow EXCEPT !.stage = "category",
                                           !.user_id = user,
                                           !.amount = amount]]
            /\ reply' = Answer("Choose a category:")
    /\ NoAppend

\* variant: the category button leads straight to DescriptionView
CategoryCallbackSkipsAccount(f, user, category) ==
    /\ flows[f].stage = "category"
    /\ IF user # flows[f].user_id
       THEN /\ reply' = Answer("This is not your expense!")
            /\ UNCHANGED flows
       ELSE /\ flows' = [flows EXCEPT ![f].stage = "description",
                                      ![f].category = category]
            /\ reply' = Answer("Add a description?")
    /\ NoAppend

\* CategoryView: the callback of the button of a category
CategoryCallback(f, user, category) ==
    /\ flows[f].stage = "category"
    /\ IF user # flows[f].user_id
       THEN /\ reply' = Answer("This is not your expense!")
            /\ UNCHANGED flows
       ELSE /\ flows' = [flows EXCEPT ![f].stage = "account",
                                      ![f].category = category]
            /\ reply' = Answer("Now choose an account:")
    /\ NoAppend

\* AccountView: the callback of the button of an account
AccountCallback(f, user, account) ==
    /\ flows[f].stage = "account"
    /\ IF user # flows[f].user_id
       THEN /\ reply' = Answer("This is not your expense!")
            /\ UNCHANGED flows
       ELSE /\ flows' = [flows EXCEPT ![f].stage = "description",
                                      ![f].account = account]
            /\ reply' = Answer("Add a description?")
    /\ NoAppend

\* DescriptionView.add_desc
add_desc(f, user) ==
    /\ flows[f].stage = "description"
    /\ IF user # flows[f].user_id
       THEN /\ reply' = Answer("This is not your expense!")
            /\ UNCHANGED flows
       ELSE /\ flows' = [flows EXCEPT ![f].modal = TRUE,
                                      ![f].modal_user = user]
            /\ reply' = Answer("Add Description")
    /\ NoAppend

\* DescriptionModal.on_submit
on_submit(f, description) ==
    /\ flows[f].modal
    /\ add_expense_to_buffer(flows[f].modal_user, flows[f].amount,
                             flows[f].category, flows[f].account, description)
    /\ flows' = [flows EXCEPT ![f].stage = "logged", ![f].modal = FALSE]
    /\ reply' = Answer("Expense logged:")

\* variant: the test of interaction.user.id is left out
skip_descAnyUser(f, user) ==
    /\ flows[f].stage = "description"
    /\ add_expense_to_buffer(user, flows[f].amount, flows[f].category,
                             flows[f].account, "")
    /\ flows' = [flows EXCEPT ![f].stage = "logged"]
    /\ reply' = Answer("Expense logged:")

\* DescriptionView.skip_desc
skip_desc(f, user) ==
    /\ flows[f].stage = "description"
    /\ IF user # flows[f].user_id
       THEN /\ reply' = Answer("This is not your expense!")
            /\ UNCHANGED flows
            /\ NoAppend
       ELSE /\ add_expense_to_buffer(user, flows[f].amount, flows[f].category,
                                     flows[f].account, "")
            /\ flows' = [flows EXCEPT ![f].stage = "logged"]
            /\ reply' = Answer("Expense logged:")

\* /expense_quick
slash_expense_quick(user, amount, category, account, description) ==
    /\ IF FloatLE(amount, 0)
       THEN /\ reply' = Answer("Amount must be positive.")
            /\ NoAppend
       ELSE /\ add_expense_to_buffer(user, amount, category, account,
                                     description)
            /\ reply' = Answer("Quick expense logged:")
    /\ UNCHANGED flows

WEBHOOK_CHANNEL_ID == "webhook"

React(emoji) == [text |-> emoji, commands |-> 1]

\* on_message
on_message(message) ==
    LET parts == message.content.parts
    IN  /\ IF message.author = "bot" \/ message.channel # WEBHOOK_CHANNEL_ID
           THEN reply' = React("") /\ NoAppend
           ELSE IF Len(parts) >= 2 /\ message.content.prefix \notin {"!", "$"}
           THEN IF Len(parts) >= 3
                THEN LET amount == float(parts[1])
                     IN  IF ~amount.ok \/ FloatLE(amount.value, 0)
                         THEN reply' = React("error") /\ NoAppend
                         ELSE /\ add_expense_to_buffer(
                                     message.author, amount.value, parts[2],
                                     parts[3],
                                     IF Len(parts) > 3 THEN parts[4] ELSE "")
                              /\ reply' = React("ok")
                ELSE reply' = React("warning") /\ NoAppend
           ELSE reply' = React("") /\ NoAppend
        /\ UNCHANGED flows

-----------------------------------------------------------------------------
(* The buffer file is plain JSON on disk and can be changed outside the bot *)

DropField(t, k) == [f \in (DOMAIN t) \ {k} |-> t[f]]

\* the file is left with text that is not JSON
CorruptBuffer ==
    /\ pc = "idle"
    /\ bufFile.kind = "valid"
    /\ bufFile' = InvalidFile
    /\ retry' = <<>>
    /\ UNCHANGED <<dbExists, accounts, transactions, now, passVars, botVars,
                   deskVars>>

\* a record of the file loses one of its keys
EditRecord ==
    /\ pc = "idle"
    /\ bufFile.kind = "valid"
    /\ \E i \in 1..Len(bufFile.data), k \in DroppableFields :
        /\ k \in DOMAIN bufFile.data[i]
        /\ bufFile' = ValidFile([bufFile.data EXCEPT ![i] = DropField(@, k)])
    /\ retry' = <<>>
    /\ UNCHANGED <<dbExists, accounts, transactions, now, passVars, botVars,
                   deskVars>>

-----------------------------------------------------------------------------
(* Database set-up *)

\* db/init_db.py: creates the database file and its (empty) tables
init_db ==
    /\ pc = "idle"
    /\ ~dbExists
    /\ dbExists' = TRUE
    /\ UNCHANGED <<bufFile, accounts, transactions, now, passVars, retry,
                   botVars, deskVars>>

NextAccountId == Cardinality(accounts) + 1

\* db_manager.add_account: account names are unique, a duplicate raises
add_account(name, account_type) ==
    /\ pc = "idle"
    /\ dbExists
    /\ \A a \in accounts : a.name # name
    /\ accounts' = accounts \cup
           {[id |-> NextAccountId, name |-> name, type |-> account_type,
             virtual_balance |-> 0, active |-> 1]}
    /\ UNCHANGED <<bufFile, dbExists, transactions, now, passVars, retry,
                   botVars, deskVars>>

AddAccount == \E a \in DbAccounts : add_account(a[1], a[2])

-----------------------------------------------------------------------------
(* pc_bot/sync.py *)

Ev(op, i) == [op |-> op, i |-> i]

\* str.lower() on the account names of the model
Lower(name) ==
    CASE name = "Cash Wallet" -> "cash wallet"
      [] name = "Credit Card" -> "credit card"
      [] name = "Unknown Wallet" -> "unknown wallet"
      [] OTHER -> name

\* variant: the lookup the comment of line 46 announces (case-insensitive)
AccountRowsNamedNoCase(account_name) ==
    {a \in accounts : Lower(a.name) = Lower(account_name)}

\* the rows of SELECT id FROM accounts WHERE name = ?
AccountRowsNamed(account_name) == {a \in accounts : a.name = account_name}

\* does SELECT id FROM accounts WHERE name = ? return a row
AccountKnown(account_name) == AccountRowsNamed(account_name) # {}

\* sync.get_account_id, when the row exists
get_account_id(account_name) ==
    (CHOOSE a \in AccountRowsNamed(account_name) : TRUE).id

\* variant: created_at taken from the record's date
TransactionRowCreatedAtDate(t) ==
    [account_id |-> get_account_id(t.account), date |-> t.date,
     amount |-> t.amount, category |-> t.category,
     description |-> t.description, type |-> "expense",
     created_at |-> t.date]

\* the tuple insert_transaction binds to the INSERT
TransactionRow(t) ==
    [account_id |-> get_account_id(t.account), date |-> t.date,
     amount |-> t.amount, category |-> t.category,
     description |-> t.description, type |-> "expense",
     created_at |-> t.timestamp]

Faults == {"none", "lookup", "insert"}

\* variant: an unknown account name is not caught and leaves the call
insert_transactionFailFast(t, i, fault) ==
    IF "account" \notin DOMAIN t
    THEN [raised |-> TRUE, ok |-> FALSE, rows |-> <<>>,
          ev |-> <<Ev("key_error", i)>>]
    ELSE IF fault = "lookup"
    THEN [raised |-> TRUE, ok |-> FALSE, rows |-> <<>>,
          ev |-> <<Ev("lookup", i), Ev("lookup_error", i)>>]
    ELSE IF ~AccountKnown(t.account)
    THEN [raised |-> TRUE, ok |-> FALSE, rows |-> <<>>,
          ev |-> <<Ev("lookup", i)>>]
    ELSE IF RequiredFields \ DOMAIN t # {}
    THEN [raised |-> TRUE, ok |-> FALSE, rows |-> <<>>,
          ev |-> <<Ev("lookup", i), Ev("key_error", i)>>]
    ELSE IF fault = "insert"
    THEN [raised |-> FALSE, ok |-> FALSE, rows |-> <<>>,
          ev |-> <<Ev("lookup", i), Ev("insert", i), Ev("insert_error", i)>>]
    ELSE [raised |-> FALSE, ok |-> TRUE,
          rows |-> <<TransactionRow(t)>>,
          ev |-> <<Ev("lookup", i), Ev("insert", i)>>]

\* variant: the sqlite3.Error of the INSERT is not caught and leaves the call
insert_transactionInsertRaises(t, i, fault) ==
    IF "account" \notin DOMAIN t
    THEN [raised |-> TRUE, ok |-> FALSE, rows |-> <<>>,
          ev |-> <<Ev("key_error", i)>>]
    ELSE IF fault = "lookup"
    THEN [raised |-> TRUE, ok |-> FALSE, rows |-> <<>>,
          ev |-> <<Ev("lookup", i), Ev("lookup_error", i)>>]
    ELSE IF ~AccountKnown(t.account)
    THEN [raised |-> FALSE, ok |-> FALSE, rows |-> <<>>,
          ev |-> <<Ev("lookup", i)>>]
    ELSE IF RequiredFields \ DOMAIN t # {}
    THEN [raised |-> TRUE, ok |-> FALSE, rows |-> <<>>,
          ev |-> <<Ev("lookup", i), Ev("key_error", i)>>]
    ELSE IF fault = "insert"
    THEN [raised |-> TRUE, ok |-> FALSE, rows |-> <<>>,
          ev |-> <<Ev("lookup", i), Ev("insert", i), Ev("insert_error", i)>>]
    ELSE [raised |-> FALSE, ok |-> TRUE,
          rows |-> <<TransactionRow(t)>>,
          ev |-> <<Ev("lookup", i), Ev("insert", i)>>]

\* sync.insert_transaction on record i (t) of the batch.  fault names the
\* sqlite3.Error the store raises in this call, if any: in the SELECT of
\* get_account_id ("lookup") or in the INSERT ("insert").
\*   raised: an exception leaves insert_transaction
\*   ok:     the value it returns otherwise
\*   rows:   the rows it staged on conn
\*   ev:     the statements it ran and the errors raised in it
insert_transaction(t, i, fault) ==
    IF "account" \notin DOMAIN t
    THEN [raised |-> TRUE, ok |-> FALSE, rows |-> <<>>,
          ev |-> <<Ev("key_error", i)>>]
    ELSE IF fault = "lookup"
    THEN [raised |-> TRUE, ok |-> FALSE, rows |-> <<>>,
          ev |-> <<Ev("lookup", i), Ev("lookup_error", i)>>]
    ELSE IF ~AccountKnown(t.account)
    THEN [raised |-> FALSE, ok |-> FALSE, rows |-> <<>>,
          ev |-> <<Ev("lookup", i)>>]
    ELSE IF RequiredFields \ DOMAIN t # {}
    THEN [raised |-> TRUE, ok |-> FALSE, rows |-> <<>>,
          ev |-> <<Ev("lookup", i), Ev("key_error", i)>>]
    ELSE IF fault = "insert"
    THEN [raised |-> FALSE, ok |-> FALSE, rows |-> <<>>,
          ev |-> <<Ev("lookup", i), Ev("insert", i), Ev("insert_error", i)>>]
    ELSE [raised |-> FALSE, ok |-> TRUE, rows |-> <<TransactionRow(t)>>,
          ev |-> <<Ev("lookup", i), Ev("insert", i)>>]

\* variant: len(results) in place of sum(results)
SumResultsCountsAll(rs) == Len(rs)

\* sum(results): the number of True
SumResults(rs) == Cardinality({i \in 1..Len(rs) : rs[i]})

\* sync_buffer returns 0 before opening anything
NothingToSync ==
    /\ pc' = "done"
    /\ outcome' = "nothing"
    /\ ret' = 0
    /\ UNCHANGED <<buffer_data, results, staged, count_synced, conn, events>>

\* sync.get_db_connection ends the process with sys.exit(1)
SysExit(evs) ==
    /\ pc' = "done"
    /\ outcome' = "exit"
    /\ events' = evs
    /\ UNCHANGED <<results, staged, count_synced, conn, ret>>

\* sync_buffer: except Exception, then finally, then return count_synced
ExceptPath(evs) ==
    /\ staged' = <<>>
    /\ events' = evs \o <<Ev("rollback", 0), Ev("close", 0)>>
    /\ conn' = "closed"
    /\ outcome' = "error"
    /\ ret' = count_synced
    /\ pc' = "done"

\* variant: the test "if not buffer_data" is left out
NothingToReadNoEmptyTest(file) == file.kind # "valid"

\* variant: invalid JSON is read as an empty list and the pass goes on
NothingToReadNoJsonTest(file) == file.kind = "absent"

\* the three early returns of sync_buffer: no file, invalid JSON, empty list
NothingToRead(file) == file.kind # "valid" \/ file.data = <<>>

\* variant: commit as soon as one record was processed
AnyProcessed(count, batch) == count > 0

\* the test of line 126
AllProcessed(count, batch) == count = Len(batch)

\* the buffer file and the tables as a pass finds them
Snapshot ==
    [bufFile |-> bufFile, transactions |-> transactions,
     accounts |-> accounts]

\* sync_buffer up to and including get_db_connection()
SyncStart ==
    /\ pc = "idle"
    /\ Len(transactions) + Len(bufFile.data) <= MaxTx
    /\ pre' = Snapshot
    /\ UNCHANGED <<bufFile, dbExists, accounts, transactions, now, retry,
                   botVars, deskVars>>
    /\ IF NothingToRead(bufFile)
       THEN NothingToSync
       ELSE /\ buffer_data' = bufFile.data
            /\ \E connectFault \in BOOLEAN :
                 IF ~dbExists
                 THEN SysExit(<<>>)
                 ELSE IF connectFault
                 THEN SysExit(<<Ev("connect_error", 0)>>)
                 ELSE /\ conn' = "open"
                      /\ events' = <<Ev("connect", 0)>>
                      /\ pc' = "scan"
                      /\ UNCHANGED <<results, staged, count_synced, outcome,
                                     ret>>

\* variant: the list is read from the file again at every use
BatchReRead == IF bufFile.kind = "valid" THEN bufFile.data ELSE <<>>

\* the list the pass iterates over and measures: the local buffer_data
Batch == buffer_data

\* one element of [insert_transaction(conn, t) for t in buffer_data]
ScanStep ==
    /\ pc = "scan"
    /\ Len(results) < Len(Batch)
    /\ \E fault \in Faults :
        LET i == Len(results) + 1
            r == insert_transaction(Batch[i], i, fault)
        IN  IF r.raised
            THEN /\ ExceptPath(events \o r.ev)
                 /\ UNCHANGED <<buffer_data, results, count_synced>>
            ELSE /\ results' = Append(results, r.ok)
                 /\ staged' = staged \o r.rows
                 /\ events' = events \o r.ev
                 /\ UNCHANGED <<pc, buffer_data, count_synced, conn, outcome,
                                ret>>
    /\ UNCHANGED <<bufFile, dbExists, accounts, transactions, now, pre,
                   retry, botVars, deskVars>>

\* variant: a rolled-back pass removes from the buffer file the records that
\* resolved
DecideDrainsResolved ==
    /\ pc = "scan"
    /\ Len(results) = Len(buffer_data)
    /\ count_synced' = SumResults(results)
    /\ IF AllProcessed(count_synced', buffer_data)
       THEN /\ pc' = "commit"
            /\ UNCHANGED <<bufFile, staged, conn, outcome, ret, events, retry>>
       ELSE /\ staged' = <<>>
            /\ events' = events \o <<Ev("rollback", 0), Ev("close", 0)>>
            /\ conn' = "closed"
            /\ outcome' = "rolledback"
            /\ ret' = count_synced'
            /\ pc' = "done"
            /\ bufFile' = ValidFile(SelectSeq(buffer_data,
                              LAMBDA t : ~AccountKnown(t.account)))
            /\ retry' = IF \A k \in 1..Len(events) :
                              events[k].op # "insert_error"
                        THEN buffer_data
                        ELSE <<>>
    /\ UNCHANGED <<dbExists, accounts, transactions, now,
                   buffer_data, results, pre, botVars, deskVars>>

\* count_synced = sum(results), and the test of line 126
Decide ==
    /\ pc = "scan"
    /\ Len(results) >= Len(Batch)
    /\ count_synced' = SumResults(results)
    /\ IF AllProcessed(count_synced', Batch)
       THEN /\ pc' = "commit"
            /\ UNCHANGED <<staged, conn, outcome, ret, events, retry>>
       ELSE /\ staged' = <<>>
            /\ events' = events \o <<Ev("rollback", 0), Ev("close", 0)>>
            /\ conn' = "closed"
            /\ outcome' = "rolledback"
            /\ ret' = count_synced'
            /\ pc' = "done"
            /\ retry' = IF \A k \in 1..Len(events) :
                              events[k].op # "insert_error"
                        THEN buffer_data
                        ELSE <<>>
    /\ UNCHANGED <<bufFile, dbExists, accounts, transactions, now,
                   buffer_data, results, pre, botVars, deskVars>>

\* conn.commit()
Commit ==
    /\ pc = "commit"
    /\ \E commitFault \in BOOLEAN :
        IF commitFault
        THEN /\ ExceptPath(Append(events, Ev("commit_error", 0)))
             /\ UNCHANGED transactions
        ELSE /\ transactions' = transactions \o staged
             /\ staged' = <<>>
             /\ events' = Append(events, Ev("commit", 0))
             /\ pc' = "clear"
             /\ UNCHANGED <<conn, outcome, ret>>
    /\ UNCHANGED <<bufFile, dbExists, accounts, now, buffer_data, results,
                   count_synced, pre, retry, botVars, deskVars>>

ClearFaults == {"none", "open", "write"}

\* with open(BUFFER_FILE_PATH, 'w') as f: json.dump([], f), then the prints,
\* finally and return.  The open can fail (file untouched) and the write can
\* fail after the open has truncated the file.
ClearBuffer ==
    /\ pc = "clear"
    /\ \E clearFault \in ClearFaults :
        IF clearFault = "none"
        THEN /\ bufFile' = ValidFile(<<>>)
             /\ events' = events \o <<Ev("clear", 0), Ev("close", 0)>>
             /\ conn' = "closed"
             /\ outcome' = "committed"
             /\ ret' = count_synced
             /\ pc' = "done"
             /\ UNCHANGED staged
        ELSE /\ bufFile' = IF clearFault = "open" THEN bufFile ELSE InvalidFile
             /\ ExceptPath(Append(events, Ev(IF clearFault = "open"
                                               THEN "open_error"
                                               ELSE "write_error", 0)))
    /\ UNCHANGED <<dbExists, accounts, transactions, now, buffer_data, results,
                   count_synced, pre, retry, botVars, deskVars>>

\* sync_buffer has returned (or the process has exited); the next run of the
\* script starts from fresh locals
Return ==
    /\ pc = "done"
    /\ pc' = "idle"
    /\ buffer_data' = <<>>
    /\ results' = <<>>
    /\ staged' = <<>>
    /\ count_synced' = 0
    /\ conn' = "none"
    /\ outcome' = "none"
    /\ ret' = 0
    /\ events' = <<>>
    /\ pre' = Snapshot
    /\ retry' = IF outcome = "rolledback" THEN retry ELSE <<>>
    /\ UNCHANGED <<bufFile, dbExists, accounts, transactions, now, botVars,
                   deskVars>>

-----------------------------------------------------------------------------

Init ==
    /\ bufFile = AbsentFile
    /\ dbExists = FALSE
    /\ accounts = {}
    /\ transactions = <<>>
    /\ now = 0
    /\ pc = "idle"
    /\ buffer_data = <<>>
    /\ results = <<>>
    /\ staged = <<>>
    /\ count_synced = 0
    /\ conn = "none"
    /\ outcome = "none"
    /\ ret = 0
    /\ events = <<>>
    /\ pre = [bufFile |-> AbsentFile, transactions |-> <<>>, accounts |-> {}]
    /\ retry = <<>>
    /\ wpc = [w \in Writers |-> "idle"]
    /\ wbuf = [w \in Writers |-> <<>>]
    /\ flows = [f \in FlowIds |-> NoFlow]
    /\ raced = {}
    /\ reply = NoReply
    /\ tables = NoRows
    /\ call = NoCall
    /\ review = <<>>

Next ==
    \/ AddExpense
    \/ CorruptBuffer
    \/ EditRecord
    \/ init_db
    \/ AddAccount
    \/ SyncStart
    \/ ScanStep
    \/ Decide
    \/ Commit
    \/ ClearBuffer
    \/ Return

Spec == Init /\ [][Next]_vars

\* the database initialised and holding the accounts of DbAccounts
InitReady ==
    /\ bufFile = AbsentFile
    /\ dbExists = TRUE
    /\ accounts = {[id |-> 1, name |-> "Cash Wallet", type |-> "wallet",
                    virtual_balance |-> 0, active |-> 1],
                   [id |-> 2, name |-> "Credit Card", type |-> "credit_card",
                    virtual_balance |-> 0, active |-> 1]}
    /\ transactions = <<>>
    /\ now = 0
    /\ pc = "idle"
    /\ buffer_data = <<>>
    /\ results = <<>>
    /\ staged = <<>>
    /\ count_synced = 0
    /\ conn = "none"
    /\ outcome = "none"
    /\ ret = 0
    /\ events = <<>>
    /\ pre = [bufFile |-> AbsentFile, transactions |-> <<>>,
              accounts |-> accounts]
    /\ retry = <<>>
    /\ wpc = [w \in Writers |-> "idle"]
    /\ wbuf = [w \in Writers |-> <<>>]
    /\ flows = [f \in FlowIds |-> NoFlow]
    /\ raced = {}
    /\ reply = NoReply
    /\ tables = NoRows
    /\ call = NoCall
    /\ review = <<>>

\* one bot call of add_expense_to_buffer at a time, overlapping the passes of
\* the synchronizer (two processes, no lock on the file)
NextOverlap ==
    \/ AddLoad("w1")
    \/ AddSave("w1")
    \/ SyncStart
    \/ ScanStep
    \/ Decide
    \/ Commit
    \/ ClearBuffer
    \/ Return

SpecOverlap == InitReady /\ [][NextOverlap]_vars

\* two overlapping calls of add_expense_to_buffer, no pass
NextWriters ==
    \/ \E w \in Writers : AddLoad(w)
    \/ \E w \in Writers : AddSave(w)

SpecWriters == InitReady /\ [][NextWriters]_vars

\* the bot alone: its three logging paths
NextBot ==
    \/ \E f \in FlowIds, user \in Users, amount \in SlashAmounts :
           slash_expense(f, user, amount)
    \/ \E f \in FlowIds, user \in Members, category \in Categories :
           CategoryCallback(f, user, category)
    \/ \E f \in FlowIds, user \in Members, account \in ButtonAccounts :
           AccountCallback(f, user, account)
    \/ \E f \in FlowIds, user \in Members : add_desc(f, user)
    \/ \E f \in FlowIds, description \in Descriptions \cup {""} :
           on_submit(f, description)
    \/ \E f \in FlowIds, user \in Members : skip_desc(f, user)
    \/ \E user \in Users, amount \in SlashAmounts, category \in Categories,
          account \in ButtonAccounts, description \in {""} :
           slash_expense_quick(user, amount, category, account, description)
    \/ \E message \in Messages : on_message(message)

SpecBot == InitReady /\ [][NextBot]_vars

-----------------------------------------------------------------------------
(* config_manager and db/seed.py *)

\* config_manager.export_accounts: name and type of every row of accounts
export_accounts(rows) ==
    [kind |-> "valid",
     data |-> {[name |-> a.name, type |-> a.type] : a \in rows}]

\* config_manager.remove_account_config. Its connection does not set
\* PRAGMA foreign_keys, so no foreign key stands in the way of the DELETE
remove_account_config(name) ==
    LET count == Cardinality({k \in 1..Len(transactions) :
                     \E a \in accounts : /\ a.name = name
                                          /\ transactions[k].account_id = a.id})
    IN  /\ pc = "idle"
        /\ accounts' = {a \in accounts : a.name # name}
        /\ tables' = [tables EXCEPT
                         !.accounts_json = export_accounts(accounts')]
        /\ call' = [op |-> "remove_account_config",
                    args |-> [name |-> name, count |-> count],
                    ret |-> "removed"]
        /\ UNCHANGED <<bufFile, dbExists, transactions, now, passVars, retry,
                       botVars, review>>

\* the rows seed_db inserts
SeedAccounts ==
    {[id |-> 1, name |-> "Cash Wallet", type |-> "wallet",
      virtual_balance |-> 0, active |-> 1],
     [id |-> 2, name |-> "Bank Account", type |-> "bank",
      virtual_balance |-> 0, active |-> 1],
     [id |-> 3, name |-> "Credit Card", type |-> "credit_card",
      virtual_balance |-> 0, active |-> 1]}
SeedCategories ==
    {[id |-> 1, name |-> "Salary", type |-> "income"],
     [id |-> 2, name |-> "Groceries", type |-> "expense"],
     [id |-> 3, name |-> "Transport", type |-> "expense"],
     [id |-> 4, name |-> "Dining", type |-> "expense"],
     [id |-> 5, name |-> "Fees", type |-> "expense"]}
SeedRow(account_id, category_id, amount, txn_type, description) ==
    [account_id |-> account_id, category_id |-> category_id,
     amount |-> amount, type |-> txn_type, date |-> 0,
     description |-> description, notes |-> "", is_recurring |-> 0]
SeedTransactions ==
    <<SeedRow(2, 1, 300000, "income", "Monthly Salary"),
      SeedRow(2, 2, 15000, "expense", "Groceries at Tesco"),
      SeedRow(2, 0, -20000, "transfer", "Reload wallet"),
      SeedRow(1, 0, 20000, "transfer", "Reload from bank"),
      SeedRow(3, 5, 200, "expense", "Processing fee")>>
SeedTransfers == <<[from_transaction_id |-> 3, to_transaction_id |-> 4]>>
SeedBills ==
    {[id |-> 1, name |-> "Internet Bill", amount |-> 12000, account_id |-> 2],
     [id |-> 2, name |-> "Electricity Bill", amount |-> 8000,
      account_id |-> 2]}
SeedSubscriptions ==
    {[id |-> 1, name |-> "Netflix", account_id |-> 3, category_id |-> 4,
      active |-> 1],
     [id |-> 2, name |-> "Spotify", account_id |-> 3, category_id |-> 4,
      active |-> 1]}

\* the data base as a record of its tables
Database(acc, txs, tbl) ==
    [accounts |-> acc, transactions |-> txs, categories |-> tbl.categories,
     bills |-> tbl.bills, subscriptions |-> tbl.subscriptions,
     transfers |-> tbl.transfers]

\* what the connection of seed_db holds after its INSERTs
SeedWork ==
    [accounts |-> accounts \cup SeedAccounts,
     transactions |-> transactions \o SeedTransactions,
     categories |-> tables.categories \cup SeedCategories,
     bills |-> tables.bills \cup SeedBills,
     subscriptions |-> tables.subscriptions \cup SeedSubscriptions,
     transfers |-> tables.transfers \o SeedTransfers]

\* conn.close() on a connection that was never committed: sqlite drops the
\* open transaction, the committed rows stay as they were
ClosedUncommitted(committed, working) == committed

\* db/seed.py seed_db: INSERTs on one connection, conn.close(), the message
seed_db ==
    LET committed == Database(accounts, transactions, tables)
        after == ClosedUncommitted(committed, SeedWork)
    IN  /\ pc = "idle"
        /\ IF \E a \in accounts, b \in SeedAccounts : a.name = b.name
           THEN /\ call' = [op |-> "seed_db", args |-> <<>>,
                            ret |-> "sqlite3.IntegrityError"]
                /\ UNCHANGED <<accounts, transactions, tables>>
           ELSE /\ accounts' = after.accounts
                /\ transactions' = after.transactions
                /\ tables' = [tables EXCEPT
                                 !.categories = after.categories,
                                 !.bills = after.bills,
                                 !.subscriptions = after.subscriptions,
                                 !.transfers = after.transfers]
                /\ call' = [op |-> "seed_db", args |-> <<>>,
                            ret |-> "Database seeded successfully!"]
        /\ UNCHANGED <<bufFile, dbExists, now, passVars, retry, botVars,
                       review>>

-----------------------------------------------------------------------------
(* db_manager on tables accounts, transactions and transfers *)

Called(op, args, result) == [op |-> op, args |-> args, ret |-> result]

\* what the desk tools leave alone
DeskFrame ==
    UNCHANGED <<bufFile, dbExists, now, passVars, retry, botVars, review>>

Abs(x) == IF x < 0 THEN -x ELSE x

\* txn_type.strip().lower()
NormalType(txn_type) ==
    CASE txn_type = "Income" -> "income"
      [] OTHER -> txn_type

AccountIds == {a.id : a \in accounts}

\* transactions.account_id is a foreign key to accounts.id, enforced on the
\* connections of db_manager (PRAGMA foreign_keys = ON)
ForeignKeyHolds(account_id) == account_id \in AccountIds

\* the row of the INSERT of db_manager into transactions
LedgerRow(account_id, amount, txn_type, date, description) ==
    [account_id |-> account_id, category_id |-> 0, amount |-> amount,
     type |-> txn_type, date |-> date, description |-> description,
     notes |-> "", is_recurring |-> 0]

\* db_manager.add_transaction
add_transaction(account_id, amount, txn_type, fault) ==
    LET args == [account_id |-> account_id, amount |-> amount,
                 txn_type |-> txn_type]
        row == LedgerRow(account_id, amount, NormalType(txn_type),
                         DateOf(now), "Lunch")
    IN  /\ pc = "idle"
        /\ Len(transactions) < MaxTx
        /\ IF NormalType(txn_type) \notin {"income", "expense", "transfer"}
           THEN /\ call' = Called("add_transaction", args, "ValueError")
                /\ UNCHANGED transactions
           ELSE IF fault # "none" \/ ~ForeignKeyHolds(account_id)
           THEN /\ call' = Called("add_transaction", args, "sqlite3.Error")
                /\ UNCHANGED transactions
           ELSE /\ transactions' = Append(transactions, row)
                /\ call' = Called("add_transaction", args, "ok")
        /\ UNCHANGED <<accounts, tables>>
        /\ DeskFrame

\* the INSERTs of add_transfer in their order, up to the first that raises:
\* the rows the connection holds and whether all three went through
TransferFaults == {"none", "debit", "credit", "link"}
TransferInserts(from_account_id, to_account_id, amount, fault) ==
    LET debit == LedgerRow(from_account_id, -Abs(amount), "transfer",
                           DateOf(now), "Reload")
        credit == LedgerRow(to_account_id, Abs(amount), "transfer",
                            DateOf(now), "Reload")
        debit_id == Len(transactions) + 1
        credit_id == Len(transactions) + 2
        link == [from_transaction_id |-> debit_id,
                 to_transaction_id |-> credit_id]
        ok1 == fault # "debit" /\ ForeignKeyHolds(from_account_id)
        ok2 == ok1 /\ fault # "credit" /\ ForeignKeyHolds(to_account_id)
        ok3 == ok2 /\ fault # "link"
    IN  [ok |-> ok3,
         transactions |-> transactions
                             \o (IF ok1 THEN <<debit>> ELSE <<>>)
                             \o (IF ok2 THEN <<credit>> ELSE <<>>),
         transfers |-> tables.transfers
                             \o (IF ok3 THEN <<link>> ELSE <<>>)]

\* variant: the except branch does not roll back
RolledBackKeepsWork(committed, working) == working

\* conn.rollback(): the committed rows, without those of the connection
RolledBack(committed, working) == committed

\* db_manager.add_transfer
add_transfer(from_account_id, to_account_id, amount, fault) ==
    LET args == [from_account_id |-> from_account_id,
                 to_account_id |-> to_account_id, amount |-> amount]
        work == TransferInserts(from_account_id, to_account_id, amount, fault)
    IN  /\ pc = "idle"
        /\ Len(transactions) + 2 <= MaxTx
        /\ IF FloatLE(amount, 0)
           THEN /\ call' = Called("add_transfer", args, "ValueError")
                /\ UNCHANGED <<transactions, tables>>
           ELSE IF work.ok
           THEN /\ transactions' = work.transactions
                /\ tables' = [tables EXCEPT !.transfers = work.transfers]
                /\ call' = Called("add_transfer", args, "ok")
           ELSE /\ transactions' = RolledBack(transactions, work.transactions)
                /\ tables' = [tables EXCEPT !.transfers =
                                  RolledBack(tables.transfers, work.transfers)]
                /\ call' = Called("add_transfer", args, "sqlite3.Error")
        /\ UNCHANGED accounts
        /\ DeskFrame

\* SELECT COUNT(*) FROM transactions WHERE account_id = ?
TransactionCount(account_id) ==
    Cardinality({k \in 1..Len(transactions) :
                    transactions[k].account_id = account_id})

\* variant: the account is deleted without the count of its transactions
delete_accountNoCount(account_id, fault) ==
    LET args == [account_id |-> account_id]
    IN  /\ pc = "idle"
        /\ IF fault # "none"
           THEN /\ call' = Called("delete_account", args, "False")
                /\ UNCHANGED accounts
           ELSE /\ accounts' = {a \in accounts : a.id # account_id}
                /\ call' = Called("delete_account", args,
                                  IF account_id \in AccountIds
                                  THEN "True" ELSE "False")
        /\ UNCHANGED <<transactions, tables>>
        /\ DeskFrame

\* db_manager.delete_account
delete_account(account_id, fault) ==
    LET args == [account_id |-> account_id]
    IN  /\ pc = "idle"
        /\ IF fault # "none" \/ TransactionCount(account_id) > 0
           THEN /\ call' = Called("delete_account", args, "False")
                /\ UNCHANGED accounts
           ELSE /\ accounts' = {a \in accounts : a.id # account_id}
                /\ call' = Called("delete_account", args,
                                  IF account_id \in AccountIds
                                  THEN "True" ELSE "False")
        /\ UNCHANGED <<transactions, tables>>
        /\ DeskFrame

NextLedger ==
    \/ \E account_id \in AccountIdArgs, amount \in Amounts,
          txn_type \in TxnTypeArgs, fault \in DeskFaults :
           add_transaction(account_id, amount, txn_type, fault)
    \/ \E from_account_id \in AccountIdArgs, to_account_id \in AccountIdArgs,
          amount \in TransferAmounts, fault \in TransferFaults :
           add_transfer(from_account_id, to_account_id, amount, fault)
    \/ \E account_id \in AccountIdArgs, fault \in DeskFaults :
           delete_account(account_id, fault)

SpecLedger == InitReady /\ [][NextLedger]_vars

\* the command line of config_manager and db/seed.py beside db_manager
NextConfig ==
    \/ NextLedger
    \/ \E name \in AccountNames : remove_account_config(name)
    \/ seed_db

SpecConfig == InitReady /\ [][NextConfig]_vars

-----------------------------------------------------------------------------
(* db_manager: the partial updates *)

\* the rows add_category, add_bill and add_subscription leave in their tables
\* (add_transaction leaves the row of transactions)
StockedRows ==
    [NoRows EXCEPT
       !.categories = {[id |-> 1, name |-> "Food", type |-> "expense",
                        emoji |-> ""]},
       !.bills = {[id |-> 1, name |-> "Internet Bill", amount |-> 12000,
                   due_date |-> 0, repeat_freq |-> "monthly",
                   account_id |-> 2]},
       !.subscriptions = {[id |-> 1, name |-> "Netflix",
                           frequency |-> "monthly", next_due_date |-> 0,
                           account_id |-> 2, category_id |-> 1,
                           last_posted_date |-> -1, active |-> 1]}]

\* the fields each update function accepts
AllowedFields(op) ==
    CASE op = "update_account" -> {"name", "type", "balance", "active"}
      [] op = "update_category" -> {"type", "name", "emoji"}
      [] op = "update_transaction" ->
            {"account_id", "category_id", "amount", "type", "date",
             "description", "notes", "is_recurring"}
      [] op = "update_bill" ->
            {"name", "amount", "due_date", "repeat_freq", "account_id"}
      [] op = "update_subscription" ->
            {"name", "frequency", "next_due_date", "account_id",
             "category_id", "last_posted_date", "active"}

\* the values of type each update function accepts; update_account and the
\* functions without a type check take any
AllowedTypes(op) ==
    CASE op = "update_category" -> {"income", "expense"}
      [] op = "update_transaction" -> {"income", "expense", "transfer"}
      [] OTHER -> {"income", "expense", "transfer", "gift", "bank"}

\* the variant without the allow-lists: every field reaches the SET clause
SetFieldsAnyField(op, updates) == DOMAIN updates
\* the fields of updates that reach the SET clause
SetFields(op, updates) ==
    {field \in DOMAIN updates \cap AllowedFields(op) :
        field = "type" /\ op \in {"update_category", "update_transaction"}
            => NormalType(updates[field]) \in AllowedTypes(op)}

\* the column a field is written to
ColumnOf(op, field) ==
    IF op = "update_account" /\ field = "balance" THEN "virtual_balance"
    ELSE field

\* the value bound to the column of a field
BoundValue(op, field, value) ==
    IF field = "type" /\ op \in {"update_category", "update_transaction"}
    THEN NormalType(value)
    ELSE IF \/ field = "is_recurring" /\ op = "update_transaction"
            \/ field = "active" /\ op = "update_subscription"
    THEN (IF value THEN 1 ELSE 0)
    ELSE value

\* set_parts and values: the columns of the SET clause with their values
SetClause(op, updates) ==
    LET fields == SetFields(op, updates)
    IN  [column \in {ColumnOf(op, field) : field \in fields} |->
            LET field == CHOOSE f \in fields : ColumnOf(op, f) = column
            IN  BoundValue(op, field, updates[field])]

\* a row after UPDATE ... SET
Written(row, sets) ==
    [column \in DOMAIN row \cup DOMAIN sets |->
        IF column \in DOMAIN sets THEN sets[column] ELSE row[column]]

\* UPDATE table SET ... WHERE id = ?, on a table kept as a set of rows
UpdateWhereId(rows, id, sets) ==
    {IF row.id = id THEN Written(row, sets) ELSE row : row \in rows}

\* what an update function returns and leaves in its table
RunUpdate(op, rows, hit, updated, updates, fault) ==
    IF DOMAIN updates = {} THEN [ret |-> "False", rows |-> rows]
    ELSE IF DOMAIN SetClause(op, updates) = {}
    THEN [ret |-> "False", rows |-> rows]
    ELSE IF fault # "none" THEN [ret |-> "False", rows |-> rows]
    ELSE IF ~hit THEN [ret |-> "False", rows |-> rows]
    ELSE [ret |-> "True", rows |-> updated]

UpdateArgs(id, updates) == [id |-> id, updates |-> updates]

update_account(account_id, updates, fault) ==
    LET op == "update_account"
        r == RunUpdate(op, accounts, account_id \in AccountIds,
                 UpdateWhereId(accounts, account_id, SetClause(op, updates)),
                 updates, fault)
    IN  /\ pc = "idle"
        /\ accounts' = r.rows
        /\ call' = Called(op, UpdateArgs(account_id, updates), r.ret)
        /\ UNCHANGED <<transactions, tables>>
        /\ DeskFrame

update_category(category_id, updates, fault) ==
    LET op == "update_category"
        rows == tables.categories
        r == RunUpdate(op, rows, \E row \in rows : row.id = category_id,
                 UpdateWhereId(rows, category_id, SetClause(op, updates)),
                 updates, fault)
    IN  /\ pc = "idle"
        /\ tables' = [tables EXCEPT !.categories = r.rows]
        /\ call' = Called(op, UpdateArgs(category_id, updates), r.ret)
        /\ UNCHANGED <<accounts, transactions>>
        /\ DeskFrame

\* the id of a transaction is its place in the table
update_transaction(transaction_id, updates, fault) ==
    LET op == "update_transaction"
        hit == transaction_id \in 1..Len(transactions)
        r == RunUpdate(op, transactions, hit,
                 IF hit
                 THEN [transactions EXCEPT ![transaction_id] =
                          Written(@, SetClause(op, updates))]
                 ELSE transactions,
                 updates, fault)
    IN  /\ pc = "idle"
        /\ transactions' = r.rows
        /\ call' = Called(op, UpdateArgs(transaction_id, updates), r.ret)
        /\ UNCHANGED <<accounts, tables>>
        /\ DeskFrame

update_bill(bill_id, updates, fault) ==
    LET op == "update_bill"
        rows == tables.bills
        r == RunUpdate(op, rows, \E row \in rows : row.id = bill_id,
                 UpdateWhereId(rows, bill_id, SetClause(op, updates)),
                 updates, fault)
    IN  /\ pc = "idle"
        /\ tables' = [tables EXCEPT !.bills = r.rows]
        /\ call' = Called(op, UpdateArgs(bill_id, updates), r.ret)
        /\ UNCHANGED <<accounts, transactions>>
        /\ DeskFrame

update_subscription(subscription_id, updates, fault) ==
    LET op == "update_subscription"
        rows == tables.subscriptions
        r == RunUpdate(op, rows,
                 \E row \in rows : row.id = subscription_id,
                 UpdateWhereId(rows, subscription_id,
                               SetClause(op, updates)),
                 updates, fault)
    IN  /\ pc = "idle"
        /\ tables' = [tables EXCEPT !.subscriptions = r.rows]
        /\ call' = Called(op, UpdateArgs(subscription_id, updates), r.ret)
        /\ UNCHANGED <<accounts, transactions>>
        /\ DeskFrame

\* the data base with a row in each table the update functions write
InitUpdate ==
    /\ bufFile = AbsentFile
    /\ dbExists = TRUE
    /\ accounts = {[id |-> 1, name |-> "Cash Wallet", type |-> "wallet",
                    virtual_balance |-> 0, active |-> 1],
                   [id |-> 2, name |-> "Credit Card", type |-> "credit_card",
                    virtual_balance |-> 0, active |-> 1]}
    /\ transactions = <<LedgerRow(1, 1250, "expense", 0, "Lunch")>>
    /\ now = 0
    /\ pc = "idle"
    /\ buffer_data = <<>>
    /\ results = <<>>
    /\ staged = <<>>
    /\ count_synced = 0
    /\ conn = "none"
    /\ outcome = "none"
    /\ ret = 0
    /\ events = <<>>
    /\ pre = [bufFile |-> AbsentFile, transactions |-> <<>>,
              accounts |-> accounts]
    /\ retry = <<>>
    /\ wpc = [w \in Writers |-> "idle"]
    /\ wbuf = [w \in Writers |-> <<>>]
    /\ flows = [f \in FlowIds |-> NoFlow]
    /\ raced = {}
    /\ reply = NoReply
    /\ tables = StockedRows
    /\ call = NoCall
    /\ review = <<>>

NextUpdate ==
    \/ \E account_id \in RowIdArgs, updates \in AccountUpdates,
          fault \in DeskFaults :
           update_account(account_id, updates, fault)
    \/ \E category_id \in RowIdArgs, updates \in CategoryUpdates,
          fault \in DeskFaults :
           update_category(category_id, updates, fault)
    \/ \E transaction_id \in RowIdArgs, updates \in TransactionUpdates,
          fault \in DeskFaults :
           update_transaction(transaction_id, updates, fault)
    \/ \E bill_id \in RowIdArgs, updates \in BillUpdates,
          fault \in DeskFaults :
           update_bill(bill_id, updates, fault)
    \/ \E subscription_id \in RowIdArgs,
          updates \in SubscriptionUpdates, fault \in DeskFaults :
           update_subscription(subscription_id, updates, fault)

SpecUpdate == InitUpdate /\ [][NextUpdate]_vars

-----------------------------------------------------------------------------
(* statement_processor: the review list and its buttons *)

\* parse_csv_data: one entry of the review list
ReviewEntry(amount) ==
    [date |-> DateOf(now), amount |-> amount,
     type |-> IF amount < 0 THEN "expense" ELSE "income",
     account_name |-> "Need Review", category |-> "Need Review",
     description |-> "Lunch"]

\* the lists parse_csv_data returns
ParsedLists ==
    {<<ReviewEntry(a)>> : a \in StatementAmounts}
    \cup {<<ReviewEntry(a), ReviewEntry(b)>> :
              a \in StatementAmounts, b \in StatementAmounts}

ReviewFrame ==
    UNCHANGED <<bufFile, dbExists, now, passVars, retry, botVars, tables>>

\* the button Parse Data, shown while the review list is empty
ParseData ==
    /\ pc = "idle"
    /\ review = <<>>
    /\ \E parsed_list \in ParsedLists :
           /\ review' = parsed_list
           /\ call' = Called("parse", [n |-> Len(parsed_list)], "loaded")
    /\ UNCHANGED <<accounts, transactions>>
    /\ ReviewFrame

\* the dropdowns of an entry: tx['account_name'], tx['category']
SelectNames(i, account_name, category) ==
    /\ pc = "idle"
    /\ i \in 1..Len(review)
    /\ review' = [review EXCEPT ![i].account_name = account_name,
                                ![i].category = category]
    /\ call' = Called("select", [index |-> i], "selected")
    /\ UNCHANGED <<accounts, transactions>>
    /\ ReviewFrame

\* del st.session_state.transactions_to_review[original_index]
Without(list, i) == SubSeq(list, 1, i - 1) \o SubSeq(list, i + 1, Len(list))

\* the row of the INSERT of insert_approved_transaction
ApprovedRow(data, account_id) ==
    [account_id |-> account_id, date |-> data.date,
     amount |-> Abs(data.amount), category |-> data.category,
     description |-> data.description, type |-> data.type]

\* insert_approved_transaction: "ValueError" when the account is unknown;
\* else it returns, with the row committed or, after an sqlite3.Error that it
\* catches, rolled back
insert_approved_transaction(data, fault) ==
    LET rows == {a \in accounts : a.name = data.account_name}
    IN  IF rows = {}
        THEN [raised |-> TRUE, transactions |-> transactions]
        ELSE IF fault # "none"
        THEN [raised |-> FALSE, transactions |-> transactions]
        ELSE [raised |-> FALSE,
              transactions |-> Append(transactions,
                  ApprovedRow(data, (CHOOSE a \in rows : TRUE).id))]

\* the button Approve & Insert of entry i
Approve(i, fault) ==
    /\ pc = "idle"
    /\ i \in 1..Len(review)
    /\ review[i].account_name # "Need Review"
    /\ review[i].category # "Need Review"
    /\ Len(transactions) < MaxTx
    /\ LET r == insert_approved_transaction(review[i], fault)
       IN  /\ transactions' = r.transactions
           /\ review' = IF r.raised THEN review ELSE Without(review, i)
           /\ call' = Called("approve", [index |-> i],
                             IF r.raised THEN "Failed to insert"
                             ELSE IF fault # "none" THEN "DB Error on insertion"
                             ELSE "Logged")
    /\ UNCHANGED accounts
    /\ ReviewFrame

\* the button Delete of entry i
Delete(i) ==
    /\ pc = "idle"
    /\ i \in 1..Len(review)
    /\ review' = Without(review, i)
    /\ call' = Called("delete", [index |-> i], "deleted")
    /\ UNCHANGED <<accounts, transactions>>
    /\ ReviewFrame

\* the review page, with accounts removed from the database under it
NextReview ==
    \/ ParseData
    \/ \E i \in 1..MaxBuf, account_name \in CachedAccounts,
          category \in CachedCategories :
           SelectNames(i, account_name, category)
    \/ \E i \in 1..MaxBuf, fault \in DeskFaults : Approve(i, fault)
    \/ \E i \in 1..MaxBuf : Delete(i)
    \/ \E account_id \in AccountIdArgs, fault \in DeskFaults :
           delete_account(account_id, fault)

SpecReview == InitReady /\ [][NextReview]_vars

-----------------------------------------------------------------------------
(* Vocabulary of the properties *)

Ops(evs) == {evs[k].op : k \in 1..Len(evs)}

\* the record has every key insert_transaction reads
WellFormed(t) == RequiredFields \subseteq DOMAIN t

\* the record names an account that is not in table accounts
NamesUnknownAccount(t) == "account" \in DOMAIN t /\ ~AccountKnown(t.account)

BatchHasUnknown ==
    \E i \in 1..Len(buffer_data) : NamesUnknownAccount(buffer_data[i])

BatchAllResolve ==
    \A i \in 1..Len(buffer_data) :
        WellFormed(buffer_data[i]) /\ AccountKnown(buffer_data[i].account)

\* errors raised by the database or by the file system
StoreErrors == {"connect_error", "lookup_error", "insert_error",
                "commit_error", "open_error", "write_error"}

\* row is the transaction the synchronizer must create for buffer record t
RowMatches(row, t) ==
    /\ \E a \in accounts : a.name = t.account /\ a.id = row.account_id
    /\ row.date = t.date
    /\ row.amount = t.amount
    /\ row.category = t.category
    /\ row.description = t.description
    /\ row.type = "expense"
    /\ row.created_at = t.timestamp

\* the rows of transactions added since the pass started
NewRows == SubSeq(transactions, Len(pre.transactions) + 1, Len(transactions))

OldRowsKept ==
    /\ Len(transactions) >= Len(pre.transactions)
    /\ SubSeq(transactions, 1, Len(pre.transactions)) = pre.transactions

-----------------------------------------------------------------------------
(* Properties *)

\* C1: a non-empty batch holding a record whose account name is not in
\* accounts leaves, after the pass, the transactions table as it was before
\* the pass (no row of the batch, resolved or not) and the buffer file with
\* the original records in the original order.
C1_AllOrNothing ==
    (pc = "done" /\ buffer_data # <<>> /\ BatchHasUnknown)
        => /\ transactions = pre.transactions
           /\ staged = <<>>
           /\ bufFile = pre.bufFile
           /\ bufFile.data = buffer_data

C1_Witness ==
    /\ pc = "done"
    /\ outcome = "rolledback"
    /\ Len(buffer_data) = 2
    /\ BatchHasUnknown
    /\ \E i \in 1..Len(results) : results[i]

\* C2: a pass over a non-empty batch whose records all name existing accounts
\* (and in which neither the database nor the file system raises) adds
\* exactly one row per buffer record, in buffer order, each with the named
\* account's id, the record's date, amount, category and description, type
\* 'expense' and created_at equal to the record's timestamp, and leaves the
\* buffer file holding the empty list.
C2_FullSuccess ==
    (/\ pc = "done"
     /\ buffer_data # <<>>
     /\ dbExists
     /\ Ops(events) \cap StoreErrors = {}
     /\ BatchAllResolve)
        => /\ OldRowsKept
           /\ Len(NewRows) = Len(buffer_data)
           /\ \A i \in 1..Len(buffer_data) :
                  RowMatches(NewRows[i], buffer_data[i])
           /\ bufFile = ValidFile(<<>>)

C2_Witness ==
    /\ pc = "done"
    /\ outcome = "committed"
    /\ Len(buffer_data) = 2
    /\ buffer_data[1].account # buffer_data[2].account
    /\ Len(NewRows) = 2

\* C3: a rolled-back pass returns 0.
C3_RolledBackReportsZero ==
    (pc = "done" /\ outcome = "rolledback") => ret = 0

\* C4: a pass that commits returns the number of records of the batch it
\* read, which is the number of rows it added to transactions.
C4_CommittedReportsBatchSize ==
    (pc = "done" /\ "commit" \in Ops(events))
        => /\ ret = Len(buffer_data)
           /\ OldRowsKept
           /\ Len(NewRows) = ret

C4_Witness ==
    /\ pc = "done"
    /\ outcome = "committed"
    /\ ret = 2
    /\ Len(pre.transactions) = 1

\* C5: at the end of every pass over a non-empty batch, either the batch is
\* committed and the buffer file holds the empty list, or transactions and
\* the buffer file are what they were before the pass; and a pass that took
\* the unexpected-error path left both as they were.
C5_BothSidesMoveTogether ==
    (pc = "done" /\ buffer_data # <<>>)
        => /\ \/ /\ OldRowsKept
                 /\ Len(NewRows) = Len(buffer_data)
                 /\ bufFile = ValidFile(<<>>)
              \/ /\ transactions = pre.transactions
                 /\ bufFile = pre.bufFile
           /\ outcome = "error"
                => transactions = pre.transactions /\ bufFile = pre.bufFile

\* C6: no buffer record gives rise to two transaction rows (a record is
\* identified by its timestamp, which becomes created_at).
C6_AtMostOneRowPerRecord ==
    \A i, j \in 1..Len(transactions) :
        transactions[i].created_at = transactions[j].created_at => i = j

\* C7: a pass that finds the buffer file absent or holding the empty list
\* returns 0, opens no connection, runs no statement, writes no file and
\* leaves transactions and the buffer file as they were.
C7_EmptyPassNoOp ==
    (pc = "done"
     /\ (pre.bufFile.kind = "absent" \/ pre.bufFile = ValidFile(<<>>)))
        => /\ outcome = "nothing"
           /\ ret = 0
           /\ conn = "none"
           /\ events = <<>>
           /\ staged = <<>>
           /\ transactions = pre.transactions
           /\ bufFile = pre.bufFile

C7_Witness ==
    /\ pc = "done"
    /\ pre.bufFile = ValidFile(<<>>)
    /\ outcome = "nothing"
    /\ Len(transactions) > 0

\* the records looked up so far, in the order of the lookups
LookedUp ==
    LET ls == SelectSeq(events, LAMBDA e : e.op = "lookup")
    IN  [k \in 1..Len(ls) |-> ls[k].i]

\* the commit/rollback decision of the pass has been taken
DecisionTaken ==
    \/ pc \in {"commit", "clear"}
    \/ Ops(events) \cap {"commit", "commit_error", "rollback"} # {}

\* C8: in a pass in which nothing raises out of insert_transaction (every
\* record has its keys and the SELECT of the lookup succeeds), whatever the
\* account names, the records are looked up
\* in buffer order, every record that resolves is staged right after its
\* lookup, and when the commit/rollback decision is taken every record of
\* the batch, before and after a failing one, has been attempted.
C8_FailSoftScan ==
    (/\ pc \in {"scan", "commit", "clear", "done"}
     /\ conn # "none"
     /\ \A i \in 1..Len(buffer_data) : WellFormed(buffer_data[i])
     /\ "lookup_error" \notin Ops(events))
        => /\ \A k \in 1..Len(LookedUp) : LookedUp[k] = k
           /\ \A k \in 1..Len(events) :
                  (events[k].op = "lookup"
                   /\ AccountKnown(buffer_data[events[k].i].account))
                      => /\ k < Len(events)
                         /\ events[k + 1] = Ev("insert", events[k].i)
           /\ DecisionTaken => Len(LookedUp) = Len(buffer_data)

C8_Witness ==
    /\ pc = "done"
    /\ outcome = "rolledback"
    /\ Len(buffer_data) = 2
    /\ NamesUnknownAccount(buffer_data[1])
    /\ \E k \in 1..Len(events) : events[k] = Ev("insert", 2)

C10_AlwaysReturns ==
    pc = "done" => outcome # "exit"

\* timestamps of the records of a buffer, in order
Stamps(seq) == [i \in 1..Len(seq) |-> seq[i].timestamp]

\* C11: an append to a valid buffer keeps every stored record in place and
\* puts the new record (stamped with the current instant) at the end; a pass
\* writes the file only when it clears it after a commit; hence the records
\* of the buffer are always in append order.
C11_BufferOrder ==
    /\ [](\A i, j \in 1..Len(bufFile.data) :
              i < j => bufFile.data[i].timestamp < bufFile.data[j].timestamp)
    /\ [][/\ (now' = now + 1 /\ bufFile.kind = "valid")
              => /\ bufFile'.kind = "valid"
                 /\ Len(bufFile'.data) = Len(bufFile.data) + 1
                 /\ SubSeq(bufFile'.data, 1, Len(bufFile.data)) = bufFile.data
                 /\ bufFile'.data[Len(bufFile'.data)].timestamp = now
          /\ (pc # "idle" /\ bufFile' # bufFile) => pc = "clear"]_vars

C11_Witness ==
    /\ pc = "done"
    /\ outcome = "rolledback"
    /\ bufFile.kind = "valid"
    /\ Stamps(bufFile.data) = <<0, 1>>

\* C12: the read at the start of add_expense_to_buffer leaves the file as it
\* is and yields the stored list when the file holds valid JSON, and the empty
\* list when the file is absent or holds invalid JSON.
C12_LenientRead ==
    [][\A w \in Writers :
          (wpc[w] = "idle" /\ wpc'[w] = "loaded")
              => /\ bufFile' = bufFile
                 /\ SubSeq(wbuf'[w], 1, Len(wbuf'[w]) - 1)
                        = (IF bufFile.kind = "valid" THEN bufFile.data
                                                    ELSE <<>>)]_vars

C12_Witness ==
    /\ wpc["w1"] = "loaded"
    /\ bufFile.kind = "invalid"
    /\ Len(wbuf["w1"]) = 1

\* C13: a pass that finds invalid JSON in the buffer file returns 0, opens
\* no connection, inserts nothing and leaves the file as it was.
C13_MalformedBufferIsEmpty ==
    (pc = "done" /\ pre.bufFile.kind = "invalid")
        => /\ outcome = "nothing"
           /\ ret = 0
           /\ conn = "none"
           /\ events = <<>>
           /\ staged = <<>>
           /\ transactions = pre.transactions
           /\ bufFile = pre.bufFile

C13_Witness ==
    /\ pc = "done"
    /\ pre.bufFile.kind = "invalid"
    /\ bufFile.kind = "invalid"

\* number of True among the first i results
Resolved(i) == Cardinality({k \in 1..i : results[k]})

InBuffer(t) ==
    /\ bufFile.kind = "valid"
    /\ \E i \in 1..Len(bufFile.data) : bufFile.data[i].timestamp = t

\* the record stamped t has a committed row
Committed(t) == \E k \in 1..Len(transactions) : transactions[k].created_at = t

\* no call of add_expense_to_buffer and no pass is under way
Quiescent == pc \in {"idle", "done"} /\ \A w \in Writers : wpc[w] = "idle"

\* C15 (as stated): once the appends and the passes have ended, every record
\* ever appended is in the buffer or has a committed row.
C15_NoRecordLost ==
    Quiescent => \A t \in 0..(now - 1) : InBuffer(t) \/ Committed(t)

\* C15 (amended): once the appends and the passes have ended, every record
\* ever appended is in the buffer or has a committed row, except the records
\* whose save fell between the read and the clear of a pass.
C15_LostOnlyInRace ==
    Quiescent => \A t \in (0..(now - 1)) \ raced : InBuffer(t) \/ Committed(t)

C15_Witness ==
    /\ pc = "done"
    /\ outcome = "committed"
    /\ \A w \in Writers : wpc[w] = "idle"
    /\ \E t \in raced : ~InBuffer(t) /\ ~Committed(t)

\* C16: a pass works on the list it read when it started: the rows it stages
\* and commits come from that list alone, it evaluates no more records than
\* that list holds, and a committed pass reports and commits that list's
\* length, whatever is saved to the file meanwhile.
C16_ReadOnce ==
    pc # "idle"
        => /\ buffer_data = (IF pre.bufFile.kind = "valid"
                             THEN pre.bufFile.data ELSE <<>>)
           /\ Len(results) <= Len(buffer_data)
           /\ \A k \in 1..Len(staged) :
                  \E i \in 1..Len(buffer_data) :
                      staged[k].created_at = buffer_data[i].timestamp
           /\ \A k \in 1..Len(NewRows) :
                  \E i \in 1..Len(buffer_data) :
                      NewRows[k].created_at = buffer_data[i].timestamp
           /\ outcome = "committed"
                  => ret = Len(buffer_data) /\ Len(NewRows) = Len(buffer_data)

C16_Witness ==
    /\ pc = "commit"
    /\ bufFile.kind = "valid"
    /\ Len(bufFile.data) > Len(buffer_data)

\* C17: a record whose call of add_expense_to_buffer overlapped no other call
\* is in the buffer once the call has saved; two overlapping calls can leave
\* one record only.
C17_SequentialAppendsKeepBoth ==
    \A t \in 0..(now - 1) :
        (t \notin raced /\ \A w \in Writers : t \notin PendingStamps(w))
            => InBuffer(t)

C17_Witness ==
    /\ \A w \in Writers : wpc[w] = "idle"
    /\ now = 2
    /\ raced = {0, 1}
    /\ Len(bufFile.data) = 1

\* C18: when the previous pass rolled back on unknown account names only,
\* the buffer has not changed since, and every record of that batch now
\* resolves, the pass (if neither the database nor the file system raises)
\* commits one row for every record of that batch and empties the buffer.
C18_RetryConverges ==
    (/\ pc = "done"
     /\ retry # <<>>
     /\ Ops(events) \cap StoreErrors = {}
     /\ \A i \in 1..Len(retry) :
            WellFormed(retry[i]) /\ AccountKnown(retry[i].account))
        => /\ outcome = "committed"
           /\ OldRowsKept
           /\ Len(NewRows) = Len(retry)
           /\ \A i \in 1..Len(retry) : RowMatches(NewRows[i], retry[i])
           /\ bufFile = ValidFile(<<>>)

C18_Witness ==
    /\ pc = "done"
    /\ outcome = "committed"
    /\ Len(retry) = 2
    /\ Len(NewRows) = 2

\* C19: every pass ends in exactly one of: nothing to sync (no connection),
\* commit and clear (no rollback), rollback (no commit); a connection that
\* was opened is closed.
C19_OneOutcome ==
    pc = "done"
        => /\ \/ outcome = "nothing" /\ events = <<>>
              \/ /\ {"commit", "clear"} \subseteq Ops(events)
                 /\ "rollback" \notin Ops(events)
              \/ /\ "rollback" \in Ops(events)
                 /\ Ops(events) \cap {"commit", "clear"} = {}
           /\ "connect" \in Ops(events) => conn = "closed"

\* the amount is a number above zero
Positive(amount) == amount # NaN /\ amount > 0

\* C20: every record that a logging path of the bot wrote to the buffer has
\* amount > 0.
C20_AmountsPositive ==
    \A i \in 1..Len(bufFile.data) : Positive(bufFile.data[i].amount)

\* C21: an append that finds invalid JSON in the buffer file rewrites the
\* file so that it holds the new record and nothing else.
C21_AppendToCorruptedBuffer ==
    [][(bufFile.kind = "invalid" /\ now' = now + 1)
          => /\ bufFile'.kind = "valid"
             /\ Len(bufFile'.data) = 1
             /\ bufFile'.data[1].timestamp = now]_vars

C21_Witness ==
    /\ pc = "idle"
    /\ transactions = <<>>
    /\ bufFile.kind = "valid"
    /\ Stamps(bufFile.data) = <<1>>

\* C22: a press of a button of CategoryView, AccountView or DescriptionView
\* by a user who did not run /expense changes neither the flow (no next view,
\* no modal) nor the buffer.
C22_OnlyInitiatorDrives ==
    [][\A f \in FlowIds, user \in Members :
          (/\ user # flows[f].user_id
           /\ \/ \E category \in Categories :
                     CategoryCallback(f, user, category)
              \/ \E account \in ButtonAccounts :
                     AccountCallback(f, user, account)
              \/ add_desc(f, user)
              \/ skip_desc(f, user))
              => UNCHANGED <<flows, bufFile>>]_vars

C22_Witness ==
    /\ reply.text = "This is not your expense!"
    /\ flows["m1"].stage = "description"
    /\ ~flows["m1"].modal
    /\ bufFile = AbsentFile

\* the stages of an /expense message, in order
StageSteps ==
    {<<"none", "category">>, <<"category", "account">>,
     <<"account", "description">>, <<"description", "logged">>}

\* C23: the views of an /expense message follow one another in the order
\* category, account, description; a step of the flow writes the buffer only
\* when it is Skip Description or the submission of the modal, and the record
\* it appends carries the amount given to /expense and the category and the
\* account chosen in that flow, none of which changes once set.
C23_FlowOrder ==
    [][\A f \in FlowIds :
          /\ flows'[f].stage # flows[f].stage
                 => <<flows[f].stage, flows'[f].stage>> \in StageSteps
          /\ flows[f].stage # "none" => flows'[f].amount = flows[f].amount
          /\ flows[f].stage \notin {"none", "category"}
                 => flows'[f].category = flows[f].category
          /\ flows[f].stage \in {"description", "logged"}
                 => flows'[f].account = flows[f].account
          /\ (flows'[f] # flows[f] /\ bufFile' # bufFile)
                 => /\ flows[f].stage = "description" \/ flows[f].modal
                    /\ flows'[f].stage = "logged"
                    /\ flows[f].category \in Categories
                    /\ flows[f].account \in ButtonAccounts
                    /\ LET e == bufFile'.data[Len(bufFile'.data)]
                       IN  /\ e.amount = flows[f].amount
                           /\ e.category = flows[f].category
                           /\ e.account = flows[f].account
                           /\ e.user = flows[f].user_id]_vars

C23_Witness ==
    /\ flows["m1"].stage = "logged"
    /\ flows["m1"].account = "Credit Card"
    /\ Len(bufFile.data) = 1
    /\ bufFile.data[1].account = "Credit Card"
    /\ bufFile.data[1].description = "Lunch"

\* the message is one that on_message is to log
Loggable(message) ==
    /\ message.author # "bot"
    /\ message.channel = WEBHOOK_CHANNEL_ID
    /\ Len(message.content.parts) >= 2
    /\ message.content.prefix \notin {"!", "$"}
    /\ Len(message.content.parts) >= 3
    /\ float(message.content.parts[1]).ok
    /\ Positive(float(message.content.parts[1]).value)

\* C24: on_message appends exactly one record when the message is loggable
\* (webhook channel, not the bot's own, '|' present, no '!' or '$' prefix,
\* three fields or more, a positive amount), leaves the buffer unchanged in
\* every other case, and processes prefix commands once in every case.
C24_WebhookIntake ==
    [][\A message \in Messages :
          on_message(message)
              => /\ reply'.commands = 1
                 /\ IF Loggable(message)
                    THEN /\ Len(bufFile'.data) = Len(load_buffer) + 1
                         /\ SubSeq(bufFile'.data, 1, Len(load_buffer))
                                = load_buffer
                    ELSE bufFile' = bufFile]_vars

\* C25: add_transfer with amount <= 0 raises ValueError and writes nothing;
\* when it succeeds it has added a debit of -|amount| on the source account
\* and a credit of +|amount| on the destination account, both of type
\* transfer, and one transfers row linking the two; when an insert fails none
\* of the three rows is there afterwards.
C25_TransferAtomic ==
    [][call'.op = "add_transfer"
          => LET a == call'.args
                 n == Len(transactions)
             IN  /\ FloatLE(a.amount, 0)
                        => /\ call'.ret = "ValueError"
                           /\ UNCHANGED <<transactions, tables>>
                 /\ call'.ret = "ok"
                        => /\ Len(transactions') = n + 2
                           /\ SubSeq(transactions', 1, n) = transactions
                           /\ transactions'[n + 1].account_id
                                  = a.from_account_id
                           /\ transactions'[n + 1].amount = -Abs(a.amount)
                           /\ transactions'[n + 1].type = "transfer"
                           /\ transactions'[n + 2].account_id = a.to_account_id
                           /\ transactions'[n + 2].amount = Abs(a.amount)
                           /\ transactions'[n + 2].type = "transfer"
                           /\ transactions'[n + 1].amount
                                  + transactions'[n + 2].amount = 0
                           /\ tables'.transfers = Append(tables.transfers,
                                  [from_transaction_id |-> n + 1,
                                   to_transaction_id |-> n + 2])
                 /\ call'.ret # "ok"
                        => UNCHANGED <<transactions, tables>>]_vars

C25_Witness ==
    /\ call.op = "add_transfer"
    /\ call.ret = "ok"
    /\ Len(tables.transfers) = 1
    /\ Len(transactions) = 3

\* C26: every transaction refers to an existing account, and delete_account
\* called on an account that has a transaction returns False and leaves the
\* account in place.
C26_DeleteKeepsReferences ==
    /\ \A k \in 1..Len(transactions) :
           transactions[k].account_id \in AccountIds
    /\ (call.op = "delete_account"
            /\ TransactionCount(call.args.account_id) > 0)
           => call.ret = "False" /\ call.args.account_id \in AccountIds

C26_Witness ==
    /\ call.op = "delete_account"
    /\ call.ret = "False"
    /\ TransactionCount(call.args.account_id) > 0
    /\ Cardinality(accounts) = 1

\* C27: remove_account_config called on an account that has transactions
\* leaves the row of the account in table accounts, marked inactive, and
\* every transaction still refers to an existing account.
C27_RemoveMarksInactive ==
    (call.op = "remove_account_config" /\ call.args.count > 0)
        => /\ \E a \in accounts : a.name = call.args.name /\ a.active = 0
           /\ \A k \in 1..Len(transactions) :
                  transactions[k].account_id \in AccountIds

\* C28: Approve takes an entry off the review list only when its row was
\* inserted and committed, and leaves the list as it is when the insert
\* failed; Delete takes the entry off the list and inserts nothing.
C28_ReviewListConsistent ==
    [][/\ call'.op = "approve"
          => /\ review' # review
                    => Len(transactions') = Len(transactions) + 1
             /\ transactions' = transactions => review' = review
       /\ call'.op = "delete"
          => /\ Len(review') = Len(review) - 1
             /\ transactions' = transactions]_vars

UpdateOps ==
    {"update_account", "update_category", "update_transaction",
     "update_bill", "update_subscription"}

\* the table an update function writes, as a function from ids to rows
TableOf(op, db) ==
    IF op = "update_transaction" THEN db.transactions
    ELSE LET rows == CASE op = "update_account" -> db.accounts
                       [] op = "update_category" -> db.categories
                       [] op = "update_bill" -> db.bills
                       [] op = "update_subscription" -> db.subscriptions
         IN  [id \in {row.id : row \in rows} |->
                 CHOOSE row \in rows : row.id = id]

\* C29: an update function of db_manager writes no column but those of the
\* supplied fields that are allowed and valid, and writes no other row or
\* table; with no valid field, or with an id no row has, it returns False
\* and leaves the data base as it was; it returns True only when the row
\* existed and now carries the values of the valid fields.
C29_PartialUpdates ==
    [][call'.op \in UpdateOps =>
         LET op == call'.op
             id == call'.args.id
             updates == call'.args.updates
             valid == SetFields(op, updates)
             columns == {ColumnOf(op, field) : field \in valid}
             db == Database(accounts, transactions, tables)
             db2 == Database(accounts', transactions', tables')
             before == TableOf(op, db)
             after == TableOf(op, db2)
         IN  /\ \A other \in UpdateOps \ {op} :
                    TableOf(other, db2) = TableOf(other, db)
             /\ DOMAIN after = DOMAIN before
             /\ \A i \in DOMAIN before :
                    /\ DOMAIN after[i] = DOMAIN before[i]
                    /\ \A column \in DOMAIN before[i] :
                           i # id \/ column \notin columns
                               => after[i][column] = before[i][column]
             /\ valid = {} \/ id \notin DOMAIN before
                    => call'.ret = "False" /\ after = before
             /\ call'.ret = "True"
                    => /\ id \in DOMAIN before
                       /\ valid # {}
                       /\ \A field \in valid :
                              after[id][ColumnOf(op, field)]
                                  = BoundValue(op, field, updates[field])
      ]_vars

\* update_account(1, balance=500, id=7) returned True: the balance is written
\* and the id is not
C29_Witness ==
    /\ call.op = "update_account"
    /\ call.ret = "True"
    /\ "id" \in DOMAIN call.args.updates
    /\ \E a \in accounts : a.id = 1 /\ a.virtual_balance = 500

\* C30: once seed_db has reported success, the rows it inserted are in the
\* tables for any connection opened afterwards.
C30_SeedIsDurable ==
    (call.op = "seed_db" /\ call.ret = "Database seeded successfully!")
        => /\ \A b \in SeedAccounts : \E a \in accounts : a.name = b.name
           /\ SeedCategories \subseteq tables.categories
           /\ Len(transactions) >= Len(SeedTransactions)
           /\ tables.transfers # <<>>
           /\ SeedBills \subseteq tables.bills
           /\ SeedSubscriptions \subseteq tables.subscriptions

====
